---- MODULE Spec2Model ----
(***************************************************************************)
(* A model of the price-alert pipeline of sunilgopinath/price-aggregator.   *)
(*                                                                         *)
(*   - the matching engine: the Kafka consumer loop of the processing      *)
(*     service and processPriceUpdate with its lastAlertTime cooldown map  *)
(*     (src/cmd/alerts/main.go, second program of the file);               *)
(*   - the streaming server: the client registry, StreamAlertsHandler, its *)
(*     heartbeat goroutine, listenForAlerts and broadcastToClients          *)
(*     (handlers/sse.go, src/unnamed/part_002).                            *)
(*                                                                         *)
(* In the comments "main.go:n" is line n of src/cmd/alerts/main.go and     *)
(* "sse.go:n" is line n of src/unnamed/part_002.                           *)
(*                                                                         *)
(* Strings that the code concatenates (user ids, symbols, the cooldown     *)
(* key) are sequences of tokens, so that fmt.Sprintf("%s_%s", ...) is the  *)
(* concatenation it is.  Times are whole seconds.  The rows that           *)
(* GetAlertsBySymbol returns are handed to the loop of processPriceUpdate  *)
(* one at a time, so that the clock can advance between two alerts of the  *)
(* same price update; the alert store belongs to another process, and any  *)
(* list of alerts of the update's symbol can come back.                    *)
(***************************************************************************)
EXTENDS Integers, Sequences, FiniteSets, TLC

VARIABLES
    now,            \* the wall clock, in seconds
    lastAlertTime,  \* main.go:155  map alertKey -> time of the last trigger
    epc,            \* position of the consumer loop: "read" or "loop"
    update,         \* the PriceUpdate being processed while epc = "loop"
    ev,             \* history: what the last step of the engine did
    firedAt         \* history: per alertKey, when an event was last emitted

evars == <<now, lastAlertTime, epc, update, ev, firedAt>>

VARIABLES
    clients,        \* sse.go:29   the registered client channels
    mu,             \* sse.go:30   "free", or "bcast" while a broadcast holds it
    clientCount,    \* sse.go:102, 110  len(clients) as last read under mu
    chan,           \* per connection, the buffer of its clientChan
    closed,         \* per connection, has close(clientChan) run
    hpc,            \* per connection, the position of StreamAlertsHandler
    hb,             \* per connection, the state of its heartbeat goroutine
    gone,           \* per connection, is r.Context() done (the client left)
    wfail,          \* history: per connection, has a write to it failed
    lpc,            \* position of listenForAlerts: "recv", "backoff", "skip"
                    \* or, inside broadcastToClients, "iter"; "init" before
                    \* InitSSE has run and "none" if it started no loop
    cur,            \* the alert broadcastToClients is sending
    todo,           \* the channels its range loop has still to visit
    pass,           \* history: the outcome so far of the broadcast pass
                    \* that is under way
    trace,          \* history, kept by OrderSpec only: the alerts handed to
                    \* broadcastToClients and, per connection, the alerts
                    \* its serving loop took from the channel
    shutdown        \* has the process been asked to shut down

svars == <<clients, mu, clientCount, chan, closed, hpc, hb, gone, wfail,
           lpc, cur, todo, pass, trace, shutdown>>

VARIABLES
    rt,             \* one event on its way from sendSSEAlert through the
                    \* relay to listenForAlerts: stage, event, payload, decoded
    tk,             \* one call of processPriceUpdate taken as a whole: the
                    \* rows, the update, the clock readings, the map before
                    \* and the events sent
    store,          \* the alerts table: per id, the row, or that there is none
    upd,            \* per UpdateAlertHandler call in flight, the row it read
    resp            \* history: the response the alert store handler that
                    \* ended last wrote

dvars == <<store, upd, resp>>

VARIABLES
    bcache,         \* the browse cache in Redis: per cache key, the response
                    \* stored under it, if any
    brw             \* per BrowseAlertsHandler call in flight, its position,
                    \* its query and the rows it read

bvars == <<bcache, brw>>

VARIABLES
    backoff,        \* connectWebSocket's wait before the next attempt, seconds
    cpc,            \* position of the ingestion client: "dial", "sleep",
                    \* "subscribe", "read", "exit"
    waits,          \* the waits slept so far in this call of connectWebSocket
    dials           \* calls of connectWebSocket so far

cvars == <<backoff, cpc, waits, dials>>

pvars == <<rt, tk, dvars, bvars, cvars>>

vars == <<evars, svars, pvars>>

----------------------------------------------------------------------------
(* Bounds of the model *)

MaxTime == 40       \* the clock stops advancing here

TickStep == 10      \* seconds between two readings of the clock

MaxPrice == 4       \* prices are 0..MaxPrice

MaxConns == 2       \* streaming requests the server gets in all

ChanCap == 2        \* sse.go:98 makes the channel with capacity 10; the
                    \* model scales it down

MaxRows == 2        \* rows GetAlertsBySymbol returns to a call that is
                    \* followed as a whole

MaxAlerts == 1      \* alerts CreateAlertHandler stores in all

MaxReqs == 2        \* calls of UpdateAlertHandler that can overlap

MaxBrowsers == 1    \* calls of BrowseAlertsHandler in flight

MaxFails == 8       \* failed attempts in a row in one call of connectWebSocket

MaxDials == 3       \* calls of connectWebSocket in one run of the client

MaxArrivals == 2    \* alerts the relay delivers while the trace is kept

----------------------------------------------------------------------------
(* Program constants *)

\* main.go:158  const cooldown = 30 * time.Second
cooldown == 30

\* main.go:173  a key for which the map lookup reports exists = false
NoEntry == -1

\* models.go:12-13  a nil *float64 threshold
Nil == -1

----------------------------------------------------------------------------
(* The data the engine works on *)

\* user ids and symbols as token sequences; two of the (user, symbol) pairs
\* format to the same key
Users == { <<"u1">>, <<"u1", "_", "x">> }

Symbols == { <<"BTC">>, <<"x", "_", "BTC">> }

Prices == 0..MaxPrice

\* thresholds a stored alert can carry (nil or a price level): prices exist
\* below, at, between and above them
Thresholds == {1, MaxPrice - 1}

\* models.Alert rows as the alert store hands them out: CreateAlertHandler and
\* UpdateAlertHandler keep at least one threshold non-nil
Alerts ==
    { a \in [UserID : Users, Symbol : Symbols,
             LowerThreshold : Thresholds \cup {Nil},
             UpperThreshold : Thresholds \cup {Nil}] :
        a.LowerThreshold # Nil \/ a.UpperThreshold # Nil }

\* a key that leaves the user out
alertKey_symbolOnly(alert) == <<"_">> \o alert.Symbol

\* main.go:170  alertKey := fmt.Sprintf("%s_%s", alert.UserID, alert.Symbol)
alertKey(alert) == alert.UserID \o <<"_">> \o alert.Symbol

Keys == { alertKey(a) : a \in Alerts }

\* a cooldown check that never suppresses
cooldownActive_never(alert, t) == FALSE

\* a cooldown check that still suppresses at exactly lastTime + cooldown
cooldownActive_inclusive(alert, t) ==
    /\ lastAlertTime[alertKey(alert)] # NoEntry
    /\ t - lastAlertTime[alertKey(alert)] <= cooldown

\* main.go:173-178  the cooldown check, read at clock value t
cooldownActive(alert, t) ==
    /\ lastAlertTime[alertKey(alert)] # NoEntry
    /\ t - lastAlertTime[alertKey(alert)] < cooldown

\* main.go:180
lowerCrossed(alert, price) ==
    alert.LowerThreshold # Nil /\ price <= alert.LowerThreshold

\* an upper check that misses price = threshold
upperCrossed_strict(alert, price) ==
    alert.UpperThreshold # Nil /\ price > alert.UpperThreshold

\* an upper check that ignores the price once a lower threshold is set
upperCrossed_either(alert, price) ==
    alert.UpperThreshold # Nil
    /\ (price >= alert.UpperThreshold \/ lowerCrossed(alert, price))

\* main.go:185
upperCrossed(alert, price) ==
    alert.UpperThreshold # Nil /\ price >= alert.UpperThreshold

\* main.go:201-208  the AlertMessage sendSSEAlert builds
sendSSEAlert(userID, symbol, threshold, triggered) ==
    [user_id |-> userID, symbol |-> symbol, threshold |-> threshold,
     triggered |-> triggered, timestamp |-> now]

\* the key is never stamped
recordFired_never(triggered, key) == lastAlertTime

\* the key is stamped by every pass that reaches the end of the loop body
recordFired_always(triggered, key) == [lastAlertTime EXCEPT ![key] = now]

\* main.go:190-193  the map after the pass: the key is stamped if triggered
recordFired(triggered, key) ==
    IF triggered THEN [lastAlertTime EXCEPT ![key] = now] ELSE lastAlertTime

\* a pass that looks at the upper threshold only if the lower one did not fire
alertEvents_firstOnly(alert, pu) ==
    IF lowerCrossed(alert, pu.Price)
       THEN << sendSSEAlert(alert.UserID, pu.Symbol, alert.LowerThreshold, "below") >>
       ELSE IF upperCrossed(alert, pu.Price)
       THEN << sendSSEAlert(alert.UserID, pu.Symbol, alert.UpperThreshold, "above") >>
       ELSE << >>

\* main.go:180-188  the events one pass of the loop body sends for an alert
\* that is not in cooldown, in the order it sends them
alertEvents(alert, pu) ==
    (IF lowerCrossed(alert, pu.Price)
       THEN << sendSSEAlert(alert.UserID, pu.Symbol, alert.LowerThreshold, "below") >>
       ELSE << >>)
    \o
    (IF upperCrossed(alert, pu.Price)
       THEN << sendSSEAlert(alert.UserID, pu.Symbol, alert.UpperThreshold, "above") >>
       ELSE << >>)

\* main.go:168-197  one pass of the loop body on the map m with the clock
\* reading t: the events it sends and the map it leaves
evalRow(m, alert, pu, t) ==
    LET key == alertKey(alert)
        suppressed == m[key] # NoEntry /\ t - m[key] < cooldown
        built == alertEvents(alert, pu)
        sent == IF suppressed
                   THEN << >>
                   ELSE [i \in 1..Len(built) |->
                            [built[i] EXCEPT !.timestamp = t]]
    IN  [events |-> sent,
         m |-> IF sent # << >> THEN [m EXCEPT ![key] = t] ELSE m]

\* main.go:160-198  processPriceUpdate: the loop over the rows in the order
\* GetAlertsBySymbol returned them, row i with the clock reading ts[i]
RECURSIVE processPriceUpdate(_, _, _, _)
processPriceUpdate(m, rows, pu, ts) ==
    IF rows = << >>
       THEN [events |-> << >>, m |-> m]
       ELSE LET first == evalRow(m, Head(rows), pu, Head(ts))
                rest == processPriceUpdate(first.m, Tail(rows), pu, Tail(ts))
            IN  [events |-> first.events \o rest.events, m |-> rest.m]

\* the lists of rows a query by symbol can return
RowsOf(symbol) ==
    { r \in UNION { [1..n -> { a \in Alerts : a.Symbol = symbol }] :
                      n \in 0..MaxRows } :
        \A i, j \in DOMAIN r : i # j => r[i] # r[j] }

\* the clock readings of a pass over n rows that starts at time t: the clock
\* may or may not move on between two rows
Readings(n, t) ==
    { ts \in [1..n -> {t, t + TickStep}] :
        \A i, j \in 1..n : i <= j => ts[i] <= ts[j] }

NoTick == [stage |-> "idle"]

NoEval == [kind |-> "none"]

----------------------------------------------------------------------------
(* The data the streaming server works on *)

\* one id per request StreamAlertsHandler serves (sse.go:98: each makes its
\* own channel, which is the key in clients)
Conns == 1..MaxConns

\* sse.go:19-25  the alerts the relay delivers
RelayAlerts ==
    { [user_id |-> <<"u1">>, symbol |-> <<"BTC">>, threshold |-> 1,
       triggered |-> "below", timestamp |-> 0],
      [user_id |-> <<"u1">>, symbol |-> <<"BTC">>, threshold |-> 3,
       triggered |-> "above", timestamp |-> 0] }

\* sse.go:125  AlertMessage{Timestamp: time.Now().Format(time.RFC3339)}
Heartbeat ==
    [user_id |-> << >>, symbol |-> << >>, threshold |-> 0,
     triggered |-> "", timestamp |-> now]

\* sse.go:68  var alert AlertMessage, before a message is decoded into it
NoAlert ==
    [user_id |-> << >>, symbol |-> << >>, threshold |-> 0,
     triggered |-> "", timestamp |-> 0]

\* encoding/json writes a string between quotes and escapes the quote, the
\* backslash and, as json.Marshal escapes HTML, the characters <, > and &
escape(tok) ==
    CASE tok = "\"" -> "\\\""
      [] tok = "\\" -> "\\\\"
      [] tok = "<" -> "\\u003c"
      [] tok = ">" -> "\\u003e"
      [] tok = "&" -> "\\u0026"
      [] OTHER -> tok

\* a decoder that takes the text between the quotes as it stands
unescape_keep(tok) == tok

\* the decoder turns each escape back into the character it stands for
unescape(tok) ==
    CASE tok = "\\\"" -> "\""
      [] tok = "\\\\" -> "\\"
      [] tok = "\\u003c" -> "<"
      [] tok = "\\u003e" -> ">"
      [] tok = "\\u0026" -> "&"
      [] OTHER -> tok

\* a Go string as a JSON string literal, and back
quote(str) == [i \in 1..Len(str) |-> escape(str[i])]

unquote(lit) == [i \in 1..Len(lit) |-> unescape(lit[i])]

\* sse.go:19-25, 140, 181  json.Marshal(alert): no struct tag carries
\* omitempty, so every field is written, zero or not, in the order of
\* declaration
Marshal(msg) ==
    << <<"user_id", quote(msg.user_id)>>, <<"symbol", quote(msg.symbol)>>,
       <<"threshold", msg.threshold>>, <<"triggered", msg.triggered>>,
       <<"timestamp", msg.timestamp>> >>

\* sse.go:146  fmt.Fprintf(w, "data: %s\n\n", alertData)
sseFrame(msg) == << "data: ", Marshal(msg), "\n\n" >>

\* the value the JSON object j holds under key k
jsonField(j, k) == j[CHOOSE i \in 1..Len(j) : j[i][1] = k][2]

\* a relay message as PublishMessage sends it (sse.go:181-188): the text of
\* the JSON object, which a faulty publisher may have cut short
Payloads == { [json |-> Marshal(a), complete |-> b] :
                a \in RelayAlerts, b \in BOOLEAN }

\* sse.go:68-69  var alert AlertMessage; json.Unmarshal(payload, &alert): a
\* text that breaks off is a syntax error and leaves alert as declared
Unmarshal(payload) ==
    IF payload.complete
       THEN [err |-> FALSE,
             alert |-> [user_id |-> unquote(jsonField(payload.json, "user_id")),
                        symbol |-> unquote(jsonField(payload.json, "symbol")),
                        threshold |-> jsonField(payload.json, "threshold"),
                        triggered |-> jsonField(payload.json, "triggered"),
                        timestamp |-> jsonField(payload.json, "timestamp")]]
       ELSE [err |-> TRUE, alert |-> NoAlert]

\* the directions of a crossing, by which a pass of the engine names the
\* publishes that fail
Directions == {"below", "above"}

\* db.go:290-294  PublishMessage: the message reaches the channel if the
\* transport is up, and the error of the Redis client is returned
PublishMessage(message, up) ==
    [delivered |-> IF up THEN << message >> ELSE << >>, err |-> ~up]

\* sse.go:176-196  BroadcastAlert marshals and publishes; a failure is logged
\* (sse.go:189-192) and the function, which has no result, returns: its
\* caller is handed no error
BroadcastAlert(alert, up) ==
    LET r == PublishMessage([json |-> Marshal(alert), complete |-> TRUE], up)
    IN  [relayed |-> r.delivered, logged |-> r.err, err |-> FALSE]

\* main.go:182, 187, 214  sendSSEAlert hands each event of the pass to
\* BroadcastAlert, in order: the outcome of each call
publishAll(out, down) ==
    [i \in 1..Len(out) |-> BroadcastAlert(out[i], out[i].triggered \notin down)]

\* no pass is under way: snapshot is the set of channels registered when the
\* pass took mu, sent and dropped the channels visited so far whose buffer
\* had room or was full at the visit, warns the number of "Alert dropped due
\* to slow client" lines the pass has logged
NoPass == [snapshot |-> {}, sent |-> {}, dropped |-> {}, warns |-> 0]

\* a send that puts the message ahead of the ones waiting in the buffer
trySend_front(buf, msg) ==
    IF Len(buf) < ChanCap THEN <<msg>> \o buf ELSE buf

\* a send that makes room in a full buffer by dropping its oldest item
trySend_overwrite(buf, msg) ==
    IF Len(buf) < ChanCap THEN Append(buf, msg) ELSE Append(Tail(buf), msg)

\* sse.go:166-171 / 124-130  select { case ch <- msg: default: } on an open
\* channel: the buffer after the attempt
trySend(buf, msg) ==
    IF Len(buf) < ChanCap THEN Append(buf, msg) ELSE buf

\* a full buffer is passed over without a log line
dropWarns_silent(buf, n) == n

\* sse.go:169-170  the default case logs the drop: the number of drop lines
\* logged after a visit that found buf, n having been logged before it
dropWarns(buf, n) == IF Len(buf) < ChanCap THEN n ELSE n + 1

\* sse.go:101  clients[clientChan] = true
register(c) == clients \cup {c}

\* the channel stays in the map
unregister_keep(c) == clients

\* sse.go:109  delete(clients, clientChan)
unregister(c) == clients \ {c}

\* no trace is kept
NoTrace == [on |-> FALSE, arrived |-> << >>, got |-> [c \in Conns |-> << >>]]

\* the trace before anything has happened
EmptyTrace == [NoTrace EXCEPT !.on = TRUE]

\* sse.go:79  broadcastToClients(alert) is called
traceArrival(alert) ==
    IF trace.on THEN [trace EXCEPT !.arrived = Append(@, alert)] ELSE trace

\* sse.go:139  the range loop of connection c takes item from the channel; a
\* heartbeat (sse.go:125) sets no field but the timestamp and is not recorded
traceDrain(c, item) ==
    IF trace.on /\ item.triggered # ""
       THEN [trace EXCEPT !.got[c] = Append(@, item)]
       ELSE trace

\* alerts.go:196  uuid.New(): every stored alert gets an id of its own
AlertIDs == 1..MaxAlerts

Reqs == 1..MaxReqs

\* no row under this id yet, and the row under this id was deleted
NoRow == [kind |-> "none"]

Deleted == [kind |-> "deleted"]

NoResp == [status |-> 0, missing |-> FALSE]

\* a request body that is not JSON of the request's shape
BadBody == [kind |-> "bad"]

\* alerts.go:29-34, 165  the bodies of a create request: those that decode
\* (a field the body leaves out is "" or a nil pointer) and one that does not
CreateAlertRequests ==
    {BadBody} \cup
    [UserID : {<< >>, <<"u1">>}, Symbol : {<< >>} \cup Symbols,
     UpperThreshold : Thresholds \cup {Nil},
     LowerThreshold : Thresholds \cup {Nil}]

\* alerts.go:36-40, 277  the bodies of an update request
UpdateAlertRequests ==
    {BadBody} \cup
    [Symbol : {<< >>} \cup Symbols,
     UpperThreshold : Thresholds \cup {Nil},
     LowerThreshold : Thresholds \cup {Nil}]

\* a check that lets an alert without thresholds pass
thresholdsMissing_never(upper, lower) == FALSE

\* alerts.go:184, 298  the check both handlers make before they write
thresholdsMissing(upper, lower) == upper = Nil /\ lower = Nil

\* alerts.go:175  the required fields of a create request
fieldsMissing(req) == req.UserID = << >> \/ req.Symbol = << >>

\* alerts.go:194-203  the row CreateAlertHandler builds from the request
newAlert(req) ==
    [kind |-> "row", UserID |-> req.UserID, Symbol |-> req.Symbol,
     UpperThreshold |-> req.UpperThreshold,
     LowerThreshold |-> req.LowerThreshold]

\* alerts.go:287-296  the fields the request provides replace those of the
\* alert that was read
merge(existing, req) ==
    [existing EXCEPT
        !.Symbol = IF req.Symbol # << >> THEN req.Symbol ELSE @,
        !.UpperThreshold =
            IF req.UpperThreshold # Nil THEN req.UpperThreshold ELSE @,
        !.LowerThreshold =
            IF req.LowerThreshold # Nil THEN req.LowerThreshold ELSE @]

\* db.go:182-208  UPDATE alerts SET symbol, upper_threshold, lower_threshold
\* WHERE id: the row under the id, if there is one, takes the three values
UpdateAlert(table, id, alert) ==
    IF table[id].kind = "row"
       THEN [table EXCEPT ![id] =
                [@ EXCEPT !.Symbol = alert.Symbol,
                          !.UpperThreshold = alert.UpperThreshold,
                          !.LowerThreshold = alert.LowerThreshold]]
       ELSE table

\* ingestion/main.go:76  var backoff = 1 * time.Second
initialBackoff == 1

\* ingestion/main.go:84  the bound of the comparison, 30 * time.Second
maxBackoff == 30

\* ingestion/main.go:84-86  if backoff < 30*time.Second { backoff *= 2 }
nextBackoff(b) == IF b < maxBackoff THEN b * 2 ELSE b

Browsers == 1..MaxBrowsers

\* alerts.go:87, 364-380  the cache keys: one per query string, here the
\* query without parameters and the query for one symbol
Queries == { [by |-> "all"], [by |-> "symbol", symbol |-> <<"BTC">>] }

\* part_001:51-54  Redis holds nothing under the key
Miss == [kind |-> "miss"]

NoBrowse == [pc |-> "idle"]

\* alerts.go:103-122, db.go:142  the rows a browse query reads from the table
answer(table, q) ==
    { table[id] : id \in { i \in AlertIDs :
                              /\ table[i].kind = "row"
                              /\ q.by = "symbol" => table[i].Symbol = q.symbol } }

\* part_001:49-60  GetCache, as BrowseAlertsHandler reads its result
\* (alerts.go:89-90): a hit needs Redis to answer and to hold the key
GetCache(cache, q, up) ==
    IF up /\ cache[q] # Miss
       THEN [hit |-> TRUE, cached |-> cache[q]]
       ELSE [hit |-> FALSE, cached |-> Miss]

\* part_001:62-64  SetCache; the handler only logs its error (alerts.go:145-150)
SetCache(cache, q, data, up) ==
    IF up THEN [cache EXCEPT ![q] = [kind |-> "val", data |-> data]] ELSE cache

\* part_001:66-107  InvalidateByPrefix: every key with the prefix is deleted,
\* but for those whose Del fails: all of them, if the scan for the keys fails
InvalidateByPrefix(cache, failed) ==
    [q \in Queries |-> IF q \in failed THEN cache[q] ELSE Miss]

\* no event is on its way
NoRoundTrip == [stage |-> "idle", event |-> NoAlert, payload |-> << >>,
                decoded |-> NoAlert]

\* no PriceUpdate is in scope outside processPriceUpdate
NoUpdate == [Symbol |-> << >>, Price |-> 0]

----------------------------------------------------------------------------
(* Initial state: both services freshly started *)

EngineIdle ==
    /\ epc = "read"
    /\ update = NoUpdate
    /\ ev = NoEval
    /\ firedAt = [k \in Keys |-> NoEntry]

StreamBoot(t, pos) ==
    /\ clients = {}
    /\ mu = "free"
    /\ clientCount = 0
    /\ chan = [c \in Conns |-> << >>]
    /\ closed = [c \in Conns |-> FALSE]
    /\ hpc = [c \in Conns |-> "idle"]
    /\ hb = [c \in Conns |-> "none"]
    /\ gone = [c \in Conns |-> FALSE]
    /\ wfail = [c \in Conns |-> FALSE]
    /\ lpc = pos
    /\ cur = NoAlert
    /\ todo = {}
    /\ pass = NoPass
    /\ trace = t
    /\ shutdown = FALSE

Boot(t, pos) ==
    /\ now = 0
    /\ lastAlertTime = [k \in Keys |-> NoEntry]
    /\ EngineIdle
    /\ StreamBoot(t, pos)

\* the variables that follow single requests and events, while none is
\* being followed
Idle ==
    /\ rt = NoRoundTrip
    /\ tk = NoTick
    /\ store = [id \in AlertIDs |-> NoRow]
    /\ upd = [h \in Reqs |-> NoRow]
    /\ resp = NoResp
    /\ bcache = [q \in Queries |-> Miss]
    /\ brw = [b \in Browsers |-> NoBrowse]
    /\ backoff = initialBackoff
    /\ cpc = "dial"
    /\ waits = << >>
    /\ dials = 1

\* the engine is consuming and the server has subscribed and is listening
Init == Boot(NoTrace, "recv") /\ Idle

----------------------------------------------------------------------------
(* The matching engine *)

\* time passes
Advance ==
    /\ now + TickStep <= MaxTime
    /\ now' = now + TickStep
    /\ ev' = NoEval
    /\ UNCHANGED <<lastAlertTime, epc, update, firedAt>>
    /\ UNCHANGED <<svars, pvars>>

\* main.go:133-150, 160-162  a price update is read and parsed and the alerts
\* of its symbol are fetched; the rows are then handed to the loop one by one
ReadMessage(symbol, price) ==
    /\ epc = "read"
    /\ epc' = "loop"
    /\ update' = [Symbol |-> symbol, Price |-> price]
    /\ ev' = NoEval
    /\ UNCHANGED <<now, lastAlertTime, firedAt>>
    /\ UNCHANGED <<svars, pvars>>

\* a consumer that gives up when the alerts cannot be fetched
FetchFailed_fatal(symbol, price) ==
    /\ epc = "read"
    /\ epc' = "stopped"
    /\ ev' = [kind |-> "fetchfail", prev |-> lastAlertTime]
    /\ UNCHANGED <<now, lastAlertTime, update, firedAt>>
    /\ UNCHANGED <<svars, pvars>>

\* main.go:162-166  GetAlertsBySymbol fails: processPriceUpdate returns
FetchFailed(symbol, price) ==
    /\ epc = "read"
    /\ ev' = [kind |-> "fetchfail", prev |-> lastAlertTime]
    /\ UNCHANGED <<now, lastAlertTime, epc, update, firedAt>>
    /\ UNCHANGED <<svars, pvars>>

\* main.go:168-197  one pass of the loop body, for the next row; down holds
\* the directions whose publish finds the transport unreachable
EvalAlert(alert, down) ==
    /\ epc = "loop"
    /\ alert.Symbol = update.Symbol
    /\ LET key == alertKey(alert)
           suppressed == cooldownActive(alert, now)
           out == IF suppressed THEN << >> ELSE alertEvents(alert, update)
           triggered == out # << >>
       IN /\ down \subseteq { out[i].triggered : i \in 1..Len(out) }
          /\ lastAlertTime' = recordFired(triggered, key)
          /\ firedAt' =
                IF out # << >> THEN [firedAt EXCEPT ![key] = now] ELSE firedAt
          /\ ev' = [kind |-> "eval", alert |-> alert, pu |-> update,
                    time |-> now, prev |-> lastAlertTime,
                    prevFired |-> firedAt[key],
                    suppressed |-> suppressed, out |-> out,
                    pub |-> publishAll(out, down)]
    /\ UNCHANGED <<now, epc, update>>
    /\ UNCHANGED <<svars, pvars>>

\* main.go:168, 197  no row is left: processPriceUpdate returns to the consumer
LoopDone ==
    /\ epc = "loop"
    /\ epc' = "read"
    /\ update' = NoUpdate
    /\ ev' = NoEval
    /\ UNCHANGED <<now, lastAlertTime, firedAt>>
    /\ UNCHANGED <<svars, pvars>>

Next ==
    \/ Advance
    \/ \E s \in Symbols, p \in Prices : ReadMessage(s, p)
    \/ \E s \in Symbols, p \in Prices : FetchFailed(s, p)
    \/ \E a \in Alerts, down \in SUBSET Directions : EvalAlert(a, down)
    \/ LoopDone

Spec == Init /\ [][Next]_vars

----------------------------------------------------------------------------
(* The streaming server *)

\* sse.go:84-136  a request arrives: the channel is made and registered under
\* mu, the count is read, and the heartbeat goroutine is started (the
\* ResponseWriter of net/http is an http.Flusher, so line 92 lets it pass).
\* main serves requests (main.go:74) once InitSSE has returned (main.go:36)
Connect(c) ==
    /\ lpc # "init"
    /\ hpc[c] = "idle"
    /\ mu = "free"
    /\ clients' = register(c)
    /\ clientCount' = Cardinality(clients')
    /\ chan' = [chan EXCEPT ![c] = << >>]
    /\ hpc' = [hpc EXCEPT ![c] = "serving"]
    /\ hb' = [hb EXCEPT ![c] = "running"]
    /\ UNCHANGED <<mu, closed, gone, wfail, lpc, cur, todo, pass>>
    /\ UNCHANGED <<trace, shutdown>>
    /\ UNCHANGED <<evars, pvars>>

\* the client goes away: net/http cancels r.Context()
Cancel(c) ==
    /\ hpc[c] = "serving"
    /\ ~gone[c]
    /\ gone' = [gone EXCEPT ![c] = TRUE]
    /\ UNCHANGED <<clients, mu, clientCount, chan, closed, hpc, hb, wfail,
                   lpc, cur, todo, pass>>
    /\ UNCHANGED <<trace, shutdown>>
    /\ UNCHANGED <<evars, pvars>>

\* sse.go:139-148  one pass of the range loop: an item is taken from the
\* channel, marshalled and written; the result of the write is not looked at
ServeNext(c) ==
    /\ hpc[c] = "serving"
    /\ chan[c] # << >>
    /\ chan' = [chan EXCEPT ![c] = Tail(@)]
    /\ wfail' = [wfail EXCEPT ![c] = @ \/ gone[c]]
    /\ UNCHANGED <<clients, mu, clientCount, closed, hpc, hb, gone,
                   lpc, cur, todo, pass>>
    /\ trace' = traceDrain(c, Head(chan[c]))
    /\ UNCHANGED shutdown
    /\ UNCHANGED <<evars, pvars>>

\* sse.go:123-130  the ticker fires: a heartbeat is put in the channel if it
\* has room, and the goroutine returns if it has none
HeartbeatTick(c) ==
    /\ hb[c] = "running"
    /\ ~closed[c]
    /\ chan' = [chan EXCEPT ![c] = trySend(@, Heartbeat)]
    /\ hb' = [hb EXCEPT ![c] = IF Len(chan[c]) < ChanCap THEN "running"
                                                         ELSE "exited"]
    /\ UNCHANGED <<clients, mu, clientCount, closed, hpc, gone, wfail,
                   lpc, cur, todo, pass>>
    /\ UNCHANGED <<trace, shutdown>>
    /\ UNCHANGED <<evars, pvars>>

\* a heartbeat goroutine that does not look at the request context
HeartbeatDone_ignore(c) ==
    /\ hb[c] = "running"
    /\ gone[c]
    /\ UNCHANGED <<svars, evars, pvars>>

\* sse.go:131-133  the heartbeat goroutine sees the request context done
HeartbeatDone(c) ==
    /\ hb[c] = "running"
    /\ gone[c]
    /\ hb' = [hb EXCEPT ![c] = "exited"]
    /\ UNCHANGED <<clients, mu, clientCount, chan, closed, hpc, gone, wfail,
                   lpc, cur, todo, pass>>
    /\ UNCHANGED <<trace, shutdown>>
    /\ UNCHANGED <<evars, pvars>>

\* sse.go:58-66  ReceiveMessage returns an error or times out
ReceiveError ==
    /\ lpc = "recv"
    /\ lpc' = "backoff"
    /\ UNCHANGED <<clients, mu, clientCount, chan, closed, hpc, hb, gone,
                   wfail, cur, todo, pass>>
    /\ UNCHANGED <<trace, shutdown>>
    /\ UNCHANGED <<evars, pvars>>

\* the loop returns after the failed receive
Backoff_giveUp ==
    /\ lpc = "backoff"
    /\ lpc' = "stopped"
    /\ UNCHANGED <<clients, mu, clientCount, chan, closed, hpc, hb, gone,
                   wfail, cur, todo, pass>>
    /\ UNCHANGED <<trace, shutdown>>
    /\ UNCHANGED <<evars, pvars>>

\* sse.go:64-65  time.Sleep(1 * time.Second); continue
Backoff ==
    /\ lpc = "backoff"
    /\ lpc' = "recv"
    /\ UNCHANGED <<clients, mu, clientCount, chan, closed, hpc, hb, gone,
                   wfail, cur, todo, pass>>
    /\ UNCHANGED <<trace, shutdown>>
    /\ UNCHANGED <<evars, pvars>>

\* sse.go:58-79, 152-165  a message is received and decoded, and
\* broadcastToClients takes mu and reaches its range loop; with no client
\* registered it logs "No SSE clients available" and is about to return
\* (sse.go:160-163), which is the pass with nothing to visit
Receive(alert) ==
    /\ lpc = "recv"
    /\ mu = "free"
    /\ \E p \in Payloads : ~Unmarshal(p).err /\ Unmarshal(p).alert = alert
    /\ trace.on => Len(trace.arrived) < MaxArrivals
    /\ mu' = "bcast"
    /\ lpc' = "iter"
    /\ cur' = alert
    /\ todo' = clients
    /\ pass' = [snapshot |-> clients, sent |-> {}, dropped |-> {}, warns |-> 0]
    /\ UNCHANGED <<clients, clientCount, chan, closed, hpc, hb, gone, wfail>>
    /\ trace' = traceArrival(alert)
    /\ UNCHANGED shutdown
    /\ UNCHANGED <<evars, pvars>>

\* the decoding error is logged and the loop goes on to broadcast the alert
\* as declared
ReceiveMalformed_broadcast(payload) ==
    /\ lpc = "recv"
    /\ mu = "free"
    /\ Unmarshal(payload).err
    /\ mu' = "bcast"
    /\ lpc' = "iter"
    /\ cur' = Unmarshal(payload).alert
    /\ todo' = clients
    /\ pass' = [snapshot |-> clients, sent |-> {}, dropped |-> {}, warns |-> 0]
    /\ UNCHANGED <<clients, clientCount, chan, closed, hpc, hb, gone, wfail>>
    /\ UNCHANGED <<trace, shutdown>>
    /\ UNCHANGED <<evars, pvars>>

\* sse.go:58-70  a message is received whose payload json.Unmarshal rejects:
\* the error is logged
ReceiveMalformed(payload) ==
    /\ lpc = "recv"
    /\ Unmarshal(payload).err
    /\ lpc' = "skip"
    /\ UNCHANGED <<clients, mu, clientCount, chan, closed, hpc, hb, gone,
                   wfail, cur, todo, pass>>
    /\ UNCHANGED <<trace, shutdown>>
    /\ UNCHANGED <<evars, pvars>>

\* sse.go:71  continue: the next pass of the for loop
SkipMessage ==
    /\ lpc = "skip"
    /\ lpc' = "recv"
    /\ UNCHANGED <<clients, mu, clientCount, chan, closed, hpc, hb, gone,
                   wfail, cur, todo, pass>>
    /\ UNCHANGED <<trace, shutdown>>
    /\ UNCHANGED <<evars, pvars>>

\* sse.go:165-172  the range loop of broadcastToClients visits one channel:
\* the alert goes in its buffer, or is dropped if the buffer is full
BroadcastSend(c) ==
    /\ lpc = "iter"
    /\ c \in todo
    /\ chan' = [chan EXCEPT ![c] = trySend(@, cur)]
    /\ todo' = todo \ {c}
    /\ pass' = IF Len(chan[c]) < ChanCap
                 THEN [pass EXCEPT !.sent = @ \cup {c}]
                 ELSE [pass EXCEPT !.dropped = @ \cup {c},
                                   !.warns = dropWarns(chan[c], @)]
    /\ UNCHANGED <<clients, mu, clientCount, closed, hpc, hb, gone, wfail,
                   lpc, cur>>
    /\ UNCHANGED <<trace, shutdown>>
    /\ UNCHANGED <<evars, pvars>>

\* the empty-registry branch returns without releasing mu
BroadcastDone_keepLock ==
    /\ lpc = "iter"
    /\ todo = {}
    /\ mu' = IF pass.snapshot = {} THEN mu ELSE "free"
    /\ lpc' = "recv"
    /\ cur' = NoAlert
    /\ pass' = NoPass
    /\ UNCHANGED <<clients, clientCount, chan, closed, hpc, hb, gone, wfail,
                   todo>>
    /\ UNCHANGED <<trace, shutdown>>
    /\ UNCHANGED <<evars, pvars>>

\* sse.go:154, 162, 172-173  broadcastToClients returns, from the range loop
\* or from the empty-registry branch: the deferred mu.Unlock()
BroadcastDone ==
    /\ lpc = "iter"
    /\ todo = {}
    /\ mu' = "free"
    /\ lpc' = "recv"
    /\ cur' = NoAlert
    /\ pass' = NoPass
    /\ UNCHANGED <<clients, clientCount, chan, closed, hpc, hb, gone, wfail,
                   todo>>
    /\ UNCHANGED <<trace, shutdown>>
    /\ UNCHANGED <<evars, pvars>>

StreamNext ==
    \/ \E c \in Conns : Connect(c)
    \/ \E c \in Conns : Cancel(c)
    \/ \E c \in Conns : ServeNext(c)
    \/ \E c \in Conns : HeartbeatTick(c)
    \/ \E c \in Conns : HeartbeatDone(c)
    \/ ReceiveError
    \/ Backoff
    \/ \E a \in RelayAlerts : Receive(a)
    \/ \E p \in Payloads : ReceiveMalformed(p)
    \/ SkipMessage
    \/ \E c \in Conns : BroadcastSend(c)
    \/ BroadcastDone

\* the streaming server as written: the range loop of StreamAlertsHandler
\* (sse.go:139) ends only once clientChan is closed, and only the deferred
\* function of the handler (sse.go:107-114) closes it, so no handler returns
StreamSpec == Init /\ [][StreamNext]_vars

----------------------------------------------------------------------------
(* Properties of the matching engine.  ev describes the pass of the loop   *)
(* body that has just run: the alert, the price update, the clock, the map *)
(* before the pass, and the events the pass sent.                          *)

Evaluated == ev.kind = "eval"

EvKey == alertKey(ev.alert)

\* the map held an entry for the key younger than the window when the pass ran
EntryYoung ==
    ev.prev[EvKey] # NoEntry /\ ev.time - ev.prev[EvKey] < cooldown

EvLower == ev.alert.LowerThreshold # Nil /\ ev.pu.Price <= ev.alert.LowerThreshold

EvUpper == ev.alert.UpperThreshold # Nil /\ ev.pu.Price >= ev.alert.UpperThreshold

BelowEvent ==
    [user_id |-> ev.alert.UserID, symbol |-> ev.pu.Symbol,
     threshold |-> ev.alert.LowerThreshold, triggered |-> "below",
     timestamp |-> ev.time]

AboveEvent ==
    [user_id |-> ev.alert.UserID, symbol |-> ev.pu.Symbol,
     threshold |-> ev.alert.UpperThreshold, triggered |-> "above",
     timestamp |-> ev.time]

EvOut == { ev.out[i] : i \in 1..Len(ev.out) }

\* C1: an event is sent for an (alert, tick) pair only if the threshold of
\* its direction is set and crossed by the tick price, and the map holds no
\* entry for the alert's key younger than the cooldown window.
C1_EmitOnlyWhenCrossedAndCool ==
    Evaluated =>
        \A e \in EvOut :
            /\ e.triggered \in {"below", "above"}
            /\ e.triggered = "below" => EvLower
            /\ e.triggered = "above" => EvUpper
            /\ ~EntryYoung

C1_Witness ==
    /\ Evaluated
    /\ ev.out # << >>
    /\ ev.prev[EvKey] # NoEntry

\* C2: a crossed lower threshold with the cooldown elapsed yields a "below"
\* event with the alert's user, the tick's symbol and the lower threshold; a
\* crossed upper threshold likewise yields an "above" event with the upper
\* threshold.
C2_CrossedAndCoolEmits ==
    Evaluated /\ ~EntryYoung =>
        /\ EvLower => BelowEvent \in EvOut
        /\ EvUpper => AboveEvent \in EvOut

C2_Witness ==
    /\ Evaluated
    /\ ev.prev[EvKey] # NoEntry
    /\ ev.alert.UpperThreshold # Nil
    /\ ev.pu.Price = ev.alert.UpperThreshold
    /\ AboveEvent \in EvOut

\* C3: once an event was sent for a key at time t, no pass for that key that
\* runs before t + cooldown sends an event, whatever the direction of the
\* crossing and whichever alert of that key is evaluated.
C3_NoEventWithinWindow ==
    Evaluated /\ ev.out # << >> =>
        ev.prevFired = NoEntry \/ ev.time >= ev.prevFired + cooldown

C3_Witness ==
    /\ Evaluated
    /\ ev.prevFired # NoEntry
    /\ ev.time > ev.prevFired
    /\ ev.time < ev.prevFired + cooldown
    /\ EvUpper
    /\ ev.alert.LowerThreshold = Nil
    /\ ev.out = << >>

\* C4: a pass is suppressed exactly when the map holds an entry for the key
\* and now - lastTime < cooldown: a crossed alert then sends nothing, and a
\* crossed alert with no entry, or at lastTime + cooldown, sends its events.
C4_SuppressedIffEntryYoung ==
    Evaluated =>
        /\ ev.suppressed <=> EntryYoung
        /\ (EvLower \/ EvUpper) => (ev.out = << >> <=> EntryYoung)

C4_Witness ==
    /\ Evaluated
    /\ ev.prev[EvKey] # NoEntry
    /\ ev.time = ev.prev[EvKey] + cooldown
    /\ ~ev.suppressed
    /\ ev.out # << >>

\* C5: a pass that sends nothing (suppressed, or nothing crossed) leaves the
\* map as it was, so the window is not extended: a crossed alert whose key
\* last sent an event at t sends again in the first pass at or after
\* t + cooldown.
C5_SilentPassLeavesStore ==
    Evaluated =>
        /\ ev.out = << >> => lastAlertTime = ev.prev
        /\ ( /\ (EvLower \/ EvUpper)
              /\ ev.prevFired # NoEntry
              /\ ev.time >= ev.prevFired + cooldown ) => ev.out # << >>

C5_Witness ==
    /\ Evaluated
    /\ ev.suppressed
    /\ EvLower
    /\ ev.time > ev.prev[EvKey]
    /\ lastAlertTime = ev.prev

\* C6 as claimed: an alert with both thresholds set and lower < upper sends
\* exactly one "above" event on a tick with price >= upper and exactly one
\* "below" event on a tick with price <= lower.
BothSetOrdered ==
    /\ ev.alert.LowerThreshold # Nil
    /\ ev.alert.UpperThreshold # Nil
    /\ ev.alert.LowerThreshold < ev.alert.UpperThreshold

C6_Original ==
    Evaluated /\ BothSetOrdered =>
        /\ Len(ev.out) <= 1
        /\ EvUpper => ev.out = << AboveEvent >>
        /\ EvLower => ev.out = << BelowEvent >>

\* C6 amended: such an alert sends at most one event per tick; when its key
\* is not in cooldown, a tick with price >= upper sends exactly one "above"
\* event and no "below" event, and a tick with price <= lower exactly one
\* "below" event and no "above" event.
C6_AtMostOneEvent ==
    Evaluated /\ BothSetOrdered =>
        /\ Len(ev.out) <= 1
        /\ ~EntryYoung =>
              /\ EvUpper => ev.out = << AboveEvent >>
              /\ EvLower => ev.out = << BelowEvent >>

C6_Witness ==
    /\ Evaluated
    /\ BothSetOrdered
    /\ ev.pu.Price > ev.alert.UpperThreshold
    /\ ev.out = << AboveEvent >>


\* the goroutines of the server are scheduled: a serving loop with an item in
\* its channel takes it, a heartbeat goroutine reaches its select, and
\* listenForAlerts gets a message or an error from every receive and runs
\* every broadcast to its end
StreamFairness ==
    /\ \A c \in Conns : WF_vars(ServeNext(c))
    /\ \A c \in Conns : WF_vars(HeartbeatTick(c) \/ HeartbeatDone(c))
    /\ \A c \in Conns : WF_vars(BroadcastSend(c))
    /\ WF_vars(BroadcastDone)
    /\ WF_vars(Backoff)
    /\ WF_vars(SkipMessage)
    /\ WF_vars(\/ ReceiveError
               \/ \E a \in RelayAlerts : Receive(a)
               \/ \E p \in Payloads : ReceiveMalformed(p))

FairStreamSpec == StreamSpec /\ StreamFairness

\* sse.go:121-134  between two ticks the heartbeat goroutine waits in its
\* select, where a context that is done is the one case that is ready: it
\* is taken
HeartbeatFairSpec ==
    FairStreamSpec /\ \A c \in Conns : WF_vars(HeartbeatDone(c))

\* the process is asked to shut down (SIGINT, SIGTERM).  main (main.go:19-74)
\* installs no signal handler and hands listenForAlerts no context or stop
\* channel, so nothing in the server reads the request
Shutdown ==
    /\ ~shutdown
    /\ shutdown' = TRUE
    /\ UNCHANGED <<clients, mu, clientCount, chan, closed, hpc, hb, gone,
                   wfail, lpc, cur, todo, pass, trace>>
    /\ UNCHANGED <<evars, pvars>>

ShutdownNext == StreamNext \/ Shutdown

ShutdownSpec == Init /\ [][ShutdownNext]_vars /\ StreamFairness

\* db.go:302-314  NewRedisSubscriber: Subscribe, then the confirmation is
\* awaited; its error is returned
NewRedisSubscriber(up) == [err |-> ~up]

\* sse.go:40-51, main.go:36-74  InitSSE: with a subscriber the loop is started;
\* without one the error is logged and InitSSE returns, and main goes on to
\* ListenAndServe either way
InitSSE(up) ==
    /\ lpc = "init"
    /\ lpc' = IF NewRedisSubscriber(up).err THEN "none" ELSE "recv"
    /\ UNCHANGED <<clients, mu, clientCount, chan, closed, hpc, hb, gone,
                   wfail, cur, todo, pass>>
    /\ UNCHANGED <<trace, shutdown>>
    /\ UNCHANGED <<evars, pvars>>

\* the serving process from the start of main
StartInit == Boot(NoTrace, "init") /\ Idle

StartupNext == StreamNext \/ \E up \in BOOLEAN : InitSSE(up)

StartupSpec == StartInit /\ [][StartupNext]_vars

\* the transport does not fail for ever: of the receive calls the loop goes
\* on issuing, one returns a well-formed message
RelayFairSpec ==
    FairStreamSpec /\ SF_vars(\E a \in RelayAlerts : Receive(a))

\* the streaming server as written, with the trace of arrivals and deliveries
\* kept for the first MaxArrivals alerts
OrderInit == Boot(EmptyTrace, "recv") /\ Idle

OrderSpec == OrderInit /\ [][StreamNext]_vars

----------------------------------------------------------------------------
(* The registry operations under every sequence of calls.  The steps below *)
(* are what runs once a handler returns; RegistrySpec lets a serving       *)
(* handler return at any point, which the range loop as written never      *)
(* does, so every behaviour of StreamSpec is a behaviour of RegistrySpec.  *)

\* the deferred function deletes the channel without taking mu
Disconnect_nolock(c) ==
    /\ hpc[c] = "serving"
    /\ clients' = unregister(c)
    /\ clientCount' = Cardinality(clients')
    /\ hpc' = [hpc EXCEPT ![c] = "deregistered"]
    /\ UNCHANGED <<mu, chan, closed, hb, gone, wfail, lpc, cur, todo, pass>>
    /\ UNCHANGED <<trace, shutdown>>
    /\ UNCHANGED <<evars, pvars>>

\* sse.go:107-111  the deferred function: the channel is deleted from clients
\* under mu and the count is read
Disconnect(c) ==
    /\ hpc[c] = "serving"
    /\ mu = "free"
    /\ clients' = unregister(c)
    /\ clientCount' = Cardinality(clients')
    /\ hpc' = [hpc EXCEPT ![c] = "deregistered"]
    /\ UNCHANGED <<mu, chan, closed, hb, gone, wfail, lpc, cur, todo, pass>>
    /\ UNCHANGED <<trace, shutdown>>
    /\ UNCHANGED <<evars, pvars>>

\* sse.go:112-113  close(clientChan), after mu is released
CloseChan(c) ==
    /\ hpc[c] = "deregistered"
    /\ closed' = [closed EXCEPT ![c] = TRUE]
    /\ hpc' = [hpc EXCEPT ![c] = "returned"]
    /\ UNCHANGED <<clients, mu, clientCount, chan, hb, gone, wfail,
                   lpc, cur, todo, pass>>
    /\ UNCHANGED <<trace, shutdown>>
    /\ UNCHANGED <<evars, pvars>>

\* sse.go:123-125  the ticker fires after close(clientChan): a send on a
\* closed channel panics, also inside a select with a default case
HeartbeatPanic(c) ==
    /\ hb[c] = "running"
    /\ closed[c]
    /\ hb' = [hb EXCEPT ![c] = "panicked"]
    /\ UNCHANGED <<clients, mu, clientCount, chan, closed, hpc, gone, wfail,
                   lpc, cur, todo, pass>>
    /\ UNCHANGED <<trace, shutdown>>
    /\ UNCHANGED <<evars, pvars>>

RegistryNext ==
    \/ StreamNext
    \/ \E c \in Conns : Disconnect(c)
    \/ \E c \in Conns : CloseChan(c)
    \/ \E c \in Conns : HeartbeatPanic(c)

RegistrySpec == Init /\ [][RegistryNext]_vars

----------------------------------------------------------------------------
(* Properties of the streaming server *)

\* requests that registered a channel, and those whose deferred function has
\* deregistered it
Connects == { c \in Conns : hpc[c] # "idle" }

Disconnects == { c \in Conns : hpc[c] \in {"deregistered", "returned"} }

C8_CancelLeadsToDeregister ==
    \A c \in Conns : (gone[c] ~> c \notin clients)

\* C9 as claimed: once a write to a connection has failed, its serving loop
\* takes no further item from the channel.
C9_NoDrainAfterWriteFailure ==
    [][\A c \in Conns : wfail[c] => Len(chan'[c]) >= Len(chan[c])]_vars

\* C10: a broadcast never waits on a channel: while a pass is under way its
\* next step can always be taken; each visit puts exactly one copy of the
\* alert in a buffer that has room and leaves a full buffer as it is; and
\* when the range loop is over the pass has visited every registered channel
\* exactly once, the full ones included.
C10_VisitEffect ==
    \A c \in Conns :
        (lpc = "iter" /\ c \in todo /\ c \notin todo') =>
            /\ chan'[c] = IF Len(chan[c]) < ChanCap THEN Append(chan[c], cur)
                                                    ELSE chan[c]
            /\ \A d \in Conns \ {c} : chan'[d] = chan[d]
            /\ c \notin pass.sent \cup pass.dropped
            /\ c \in pass'.sent <=> Len(chan[c]) < ChanCap
            /\ c \in pass'.dropped <=> Len(chan[c]) >= ChanCap

C10_PassState ==
    lpc = "iter" =>
        /\ \A c \in todo : ENABLED BroadcastSend(c)
        /\ todo = {} => ENABLED BroadcastDone
        /\ pass.snapshot = clients
        /\ pass.sent \cup pass.dropped = pass.snapshot \ todo
        /\ pass.sent \cap pass.dropped = {}

C10_BroadcastNeverWaits ==
    []C10_PassState /\ [][C10_VisitEffect]_vars

C10_Witness ==
    /\ lpc = "iter"
    /\ todo = {}
    /\ pass.dropped # {}
    /\ pass.sent # {}
    /\ \A c \in pass.sent : chan[c] # << >> /\ chan[c][Len(chan[c])] = cur
    /\ \A c \in pass.dropped : Len(chan[c]) = ChanCap

EmptyPass == lpc = "iter" /\ pass.snapshot = {}

C12_EmptyPassState ==
    /\ EmptyPass =>
          /\ clients = {}
          /\ todo = {}
          /\ pass.sent = {} /\ pass.dropped = {} /\ pass.warns = 0
          /\ ENABLED BroadcastDone
    /\ lpc # "iter" => mu = "free" /\ cur = NoAlert

C12_EmptyPassStep ==
    /\ (lpc # "iter" /\ lpc' = "iter" /\ clients = {}) =>
          /\ EmptyPass'
          /\ UNCHANGED <<clients, clientCount, chan, closed, hpc, hb, gone,
                         wfail, todo>>
    /\ (EmptyPass /\ lpc' # "iter") =>
          /\ lpc' = "recv"
          /\ UNCHANGED <<clients, clientCount, chan, closed, hpc, hb, gone,
                         wfail, todo>>

C12_EmptyBroadcastReturns ==
    []C12_EmptyPassState /\ [][C12_EmptyPassStep]_vars

C12_Witness ==
    /\ EmptyPass
    /\ Disconnects # {}
    /\ \E c \in Conns : chan[c] # << >>

RECURSIVE IsSubseq(_, _)
\* s can be got from t by leaving items out
IsSubseq(s, t) ==
    IF s = << >> THEN TRUE
    ELSE IF t = << >> THEN FALSE
    ELSE IF Head(s) = Head(t) THEN IsSubseq(Tail(s), Tail(t))
    ELSE IsSubseq(s, Tail(t))

\* C13: for every connection, the alerts its serving loop has taken from the
\* channel are, in that order, a subsequence of the alerts handed to
\* broadcastToClients: nothing is reordered and nothing delivered twice.
C13_DeliveredIsSubsequence ==
    trace.on => \A c \in Conns : IsSubseq(trace.got[c], trace.arrived)

C13_Witness ==
    /\ trace.on
    /\ Len(trace.arrived) = 2
    /\ trace.arrived[1] # trace.arrived[2]
    /\ \E c \in Conns : trace.got[c] = trace.arrived
    /\ \E c \in Conns : Len(trace.got[c]) = 1 /\ chan[c] = << >>

\* C14: registering, deregistering and the iteration of a broadcast exclude
\* one another: while a pass holds mu the client set does not change, the
\* channels the pass sends to are those registered when it took mu, each
\* once, and the set changes only while mu is free.
C14_PassSeesOneSet ==
    /\ mu = "bcast" <=> lpc = "iter"
    /\ lpc = "iter" =>
          /\ pass.snapshot = clients
          /\ pass.sent \cup pass.dropped = pass.snapshot \ todo
          /\ todo \subseteq pass.snapshot

C14_SetChangesUnderLock ==
    /\ mu = "bcast" /\ mu' = "bcast" => clients' = clients
    /\ clients' # clients => mu = "free" /\ mu' = "free"
    /\ lpc = "iter" /\ lpc' # "iter" =>
          pass.sent \cup pass.dropped = pass.snapshot /\ clients' = pass.snapshot

C14_RegistryMutuallyExclusive ==
    []C14_PassSeesOneSet /\ [][C14_SetChangesUnderLock]_vars

C14_Witness ==
    /\ lpc = "iter"
    /\ todo = {}
    /\ Cardinality(Disconnects) = 1
    /\ Cardinality(clients) = 1
    /\ pass.sent \cup pass.dropped = clients

\* C15 as claimed: a heartbeat that finds the buffer full is the only thing
\* lost: the connection stays registered and, for as long as it is open, its
\* heartbeat goroutine goes on ticking.
C15_HeartbeatKeepsTicking ==
    \A c \in Conns :
        (hpc[c] = "serving" /\ ~gone[c]) => (c \in clients /\ hb[c] = "running")

\* the keys of the JSON object of a frame
frameKeys(frame) == { frame[2][i][1] : i \in 1..Len(frame[2]) }

\* the message was built as sse.go:125 builds a heartbeat
isHeartbeat(msg) ==
    msg.user_id = << >> /\ msg.symbol = << >> /\ msg.threshold = 0
    /\ msg.triggered = ""

\* C16 as claimed: every heartbeat frame a serving loop writes is a JSON
\* object whose only key is timestamp.
C16_HeartbeatOnlyTimestamp ==
    \A c \in Conns :
        (hpc[c] = "serving" /\ chan[c] # << >> /\ isHeartbeat(Head(chan[c])))
            => frameKeys(sseFrame(Head(chan[c]))) = {"timestamp"}

\* C17: every failed receive is followed by the backoff and then by another
\* receive call; whatever errors occur the loop is at one of its positions
\* with a step to take, never ended; and once the transport delivers again,
\* a message is received and handed to broadcastToClients.
C17_LoopAlive ==
    /\ lpc \in {"recv", "backoff", "skip", "iter"}
    /\ lpc = "backoff" => ENABLED Backoff
    /\ lpc = "recv" =>
          /\ ENABLED ReceiveError
          /\ \A a \in RelayAlerts : ENABLED Receive(a)

C17_ErrorThenBackoffThenReceive ==
    /\ (lpc = "recv" /\ lpc' = "backoff") => UNCHANGED <<clients, chan, cur>>
    /\ (lpc = "backoff" /\ lpc' # "backoff") =>
          lpc' = "recv" /\ UNCHANGED <<clients, chan, cur>>

C17_RetriesUntilReceived ==
    /\ []C17_LoopAlive
    /\ [][C17_ErrorThenBackoffThenReceive]_vars
    /\ (lpc = "backoff" ~> lpc = "recv")
    /\ (lpc = "backoff" ~> (lpc = "iter" /\ cur \in RelayAlerts))

C17_Witness ==
    /\ lpc = "backoff"
    /\ clients # {}
    /\ \E c \in clients : chan[c] # << >>

\* C19: a message whose payload does not decode is skipped: it never reaches
\* broadcastToClients, skipping it changes no buffer and takes no lock, and
\* the loop goes back to its receive call, where a well-formed message can
\* be received.
C19_SkipState ==
    /\ lpc = "skip" => ENABLED SkipMessage /\ mu = "free" /\ cur = NoAlert
    /\ lpc = "iter" => cur \in RelayAlerts
    /\ lpc = "recv" => \A a \in RelayAlerts : ENABLED Receive(a)

C19_SkipStep ==
    /\ (lpc = "recv" /\ lpc' = "skip") =>
          UNCHANGED <<clients, mu, chan, cur, todo, pass>>
    /\ (lpc = "skip" /\ lpc' # "skip") =>
          lpc' = "recv" /\ UNCHANGED <<clients, mu, chan, cur, todo, pass>>

C19_MalformedSkipped ==
    []C19_SkipState /\ [][C19_SkipStep]_vars

C19_Witness ==
    /\ lpc = "skip"
    /\ clients # {}
    /\ \E c \in clients : chan[c] # << >> /\ Len(chan[c]) < ChanCap

\* C18 as claimed: once the process is asked to shut down, the subscribe loop
\* eventually leaves its receive/retry loop.
C18_ShutdownEndsLoop ==
    shutdown ~> lpc \notin {"recv", "backoff", "skip", "iter"}

\* C20 as claimed: a failed publish is reported to the caller of the publish
\* operation and does not stop the evaluation loop: the event is dropped
\* without a retry, and the loop goes on with the remaining alerts and ticks.
C20_PublishFailureReported ==
    Evaluated =>
        /\ \A i \in 1..Len(ev.out) :
              /\ ev.pub[i].relayed = << >> => ev.pub[i].err
              /\ Len(ev.pub[i].relayed) <= 1
        /\ epc = "loop"
        /\ ENABLED LoopDone

----------------------------------------------------------------------------
(* One event from the engine to the streaming server *)

\* user ids as CreateAlertHandler stores them: any text a JSON request can
\* carry, the characters that JSON escapes among them
WireUsers ==
    Users \cup { <<"a", "<", "b">>, <<"\\", "u003c">>, <<"q", "\"", "&">>,
                 <<">", "\\", "\\">> }

\* main.go:180-188, 201-215  an alert has crossed: sendSSEAlert builds the
\* AlertMessage and calls BroadcastAlert with it
Emit(userID, symbol, threshold, triggered) ==
    /\ rt.stage = "idle"
    /\ rt' = [NoRoundTrip EXCEPT
                !.stage = "built",
                !.event = sendSSEAlert(userID, symbol, threshold, triggered)]
    /\ UNCHANGED <<evars, svars, tk, dvars, bvars, cvars>>

\* sse.go:176-196  BroadcastAlert marshals the event and publishes the text;
\* if the publish fails nothing is on the channel
Publish(up) ==
    /\ rt.stage = "built"
    /\ LET r == BroadcastAlert(rt.event, up)
       IN  rt' = IF r.relayed = << >>
                    THEN NoRoundTrip
                    ELSE [rt EXCEPT !.stage = "relayed",
                                    !.payload = r.relayed[1]]
    /\ UNCHANGED <<evars, svars, tk, dvars, bvars, cvars>>

\* sse.go:59-72  listenForAlerts receives the payload and unmarshals it
Decode ==
    /\ rt.stage = "relayed"
    /\ ~Unmarshal(rt.payload).err
    /\ rt' = [rt EXCEPT !.stage = "decoded",
                        !.decoded = Unmarshal(rt.payload).alert]
    /\ UNCHANGED <<evars, svars, tk, dvars, bvars, cvars>>

\* sse.go:79-80  the decoded alert is broadcast and goes out of scope
Forget ==
    /\ rt.stage = "decoded"
    /\ rt' = NoRoundTrip
    /\ UNCHANGED <<evars, svars, tk, dvars, bvars, cvars>>

RoundTripNext ==
    \/ \E u \in WireUsers, s \in Symbols, th \in Thresholds, d \in Directions :
          Emit(u, s, th, d)
    \/ \E up \in BOOLEAN : Publish(up)
    \/ Decode
    \/ Forget

RoundTripSpec == Init /\ [][RoundTripNext]_vars

----------------------------------------------------------------------------
(* One call of processPriceUpdate as a whole *)

\* main.go:133-150, 160-166  a price update is read and parsed and the alerts
\* of its symbol are fetched, for the call that is followed as a whole
ReadTick(symbol, price) ==
    /\ epc = "read"
    /\ tk.stage = "idle"
    /\ epc' = "loop"
    /\ update' = [Symbol |-> symbol, Price |-> price]
    /\ tk' = [stage |-> "fetched"]
    /\ UNCHANGED <<now, lastAlertTime, ev, firedAt>>
    /\ UNCHANGED <<svars, rt, dvars, bvars, cvars>>

\* main.go:168-198  the loop of processPriceUpdate runs to its end on the
\* rows the store returned and the call returns to the consumer
Tick(rows, ts) ==
    /\ epc = "loop"
    /\ tk.stage = "fetched"
    /\ LET r == processPriceUpdate(lastAlertTime, rows, update, ts)
       IN  /\ lastAlertTime' = r.m
           /\ tk' = [stage |-> "done", rows |-> rows, pu |-> update,
                     ts |-> ts, prev |-> lastAlertTime, events |-> r.events]
    /\ now' = IF ts = << >> THEN now ELSE ts[Len(ts)]
    /\ epc' = "read"
    /\ update' = NoUpdate
    /\ UNCHANGED <<ev, firedAt>>
    /\ UNCHANGED <<svars, rt, dvars, bvars, cvars>>

TickNext ==
    \/ \E s \in Symbols, p \in Prices : ReadTick(s, p)
    \/ \E rows \in RowsOf(update.Symbol) :
          \E ts \in Readings(Len(rows), now) : Tick(rows, ts)

\* the engine between two messages, a cooldown window after its start, with
\* keys that never fired, keys whose window is over and keys within it
TickInit ==
    /\ now = cooldown
    /\ lastAlertTime \in [Keys -> {NoEntry, 0, TickStep}]
    /\ EngineIdle
    /\ StreamBoot(NoTrace, "recv")
    /\ Idle

TickSpec == TickInit /\ [][TickNext]_vars

----------------------------------------------------------------------------
(* The alert store's HTTP handlers *)

\* alerts.go:157-224  CreateAlertHandler; dbOk tells whether the INSERT
\* succeeds, failed which cache keys the invalidation fails to delete
CreateAlertHandler(id, req, dbOk, failed) ==
    /\ store[id] = NoRow
    /\ \A j \in AlertIDs : j < id => store[j] # NoRow
    /\ IF req = BadBody \/ fieldsMissing(req)
          THEN /\ resp' = [status |-> 400, missing |-> FALSE]
               /\ store' = store
          ELSE IF thresholdsMissing(req.UpperThreshold, req.LowerThreshold)
          THEN /\ resp' = [status |-> 400, missing |-> TRUE]
               /\ store' = store
          ELSE IF ~dbOk
          THEN /\ resp' = [status |-> 500,
                           missing |-> req.UpperThreshold = Nil
                                       /\ req.LowerThreshold = Nil]
               /\ store' = store
          ELSE /\ resp' = [status |-> 201,
                           missing |-> req.UpperThreshold = Nil
                                       /\ req.LowerThreshold = Nil]
               /\ store' = [store EXCEPT ![id] = newAlert(req)]
    /\ bcache' = IF resp'.status = 201
                    THEN InvalidateByPrefix(bcache, failed) ELSE bcache
    /\ UNCHANGED <<upd, brw>>
    /\ UNCHANGED <<evars, svars, rt, tk, cvars>>

\* alerts.go:256-274  UpdateAlertHandler reads the alert: without a row, or
\* if the query fails, it answers 404
UpdateLoad(h, id, dbOk) ==
    /\ upd[h] = NoRow
    /\ IF store[id].kind = "row" /\ dbOk
          THEN /\ upd' = [upd EXCEPT ![h] = [store[id] EXCEPT !.kind = id]]
               /\ resp' = NoResp
          ELSE /\ upd' = upd
               /\ resp' = [status |-> 404, missing |-> FALSE]
    /\ UNCHANGED store
    /\ UNCHANGED <<evars, svars, rt, tk, bvars, cvars>>

\* alerts.go:276-331  the rest of UpdateAlertHandler: the body is decoded and
\* merged into the alert that was read, the thresholds are checked and the
\* alert is written back
UpdateSave(h, req, dbOk, failed) ==
    /\ upd[h] # NoRow
    /\ LET merged == merge(upd[h], req)
           absent == merged.UpperThreshold = Nil /\ merged.LowerThreshold = Nil
       IN  IF req = BadBody
              THEN /\ resp' = [status |-> 400, missing |-> FALSE]
                   /\ store' = store
              ELSE IF thresholdsMissing(merged.UpperThreshold,
                                        merged.LowerThreshold)
              THEN /\ resp' = [status |-> 400, missing |-> TRUE]
                   /\ store' = store
              ELSE IF ~dbOk
              THEN /\ resp' = [status |-> 500, missing |-> absent]
                   /\ store' = store
              ELSE /\ resp' = [status |-> 200, missing |-> absent]
                   /\ store' = UpdateAlert(store, upd[h].kind, merged)
    /\ upd' = [upd EXCEPT ![h] = NoRow]
    /\ bcache' = IF resp'.status = 200
                    THEN InvalidateByPrefix(bcache, failed) ELSE bcache
    /\ UNCHANGED brw
    /\ UNCHANGED <<evars, svars, rt, tk, cvars>>

\* alerts.go:335-362, db.go:211-233  DeleteAlertHandler: DeleteAlert fails if
\* the statement fails or no row had the id, and the handler answers 500
DeleteAlertHandler(id, dbOk, failed) ==
    /\ IF store[id].kind = "row" /\ dbOk
          THEN /\ store' = [store EXCEPT ![id] = Deleted]
               /\ resp' = [status |-> 200, missing |-> FALSE]
          ELSE /\ store' = store
               /\ resp' = [status |-> 500, missing |-> FALSE]
    /\ bcache' = IF resp'.status = 200
                    THEN InvalidateByPrefix(bcache, failed) ELSE bcache
    /\ UNCHANGED <<upd, brw>>
    /\ UNCHANGED <<evars, svars, rt, tk, cvars>>

StoreNext ==
    \/ \E id \in AlertIDs, req \in CreateAlertRequests, ok \in BOOLEAN :
          \E failed \in SUBSET Queries : CreateAlertHandler(id, req, ok, failed)
    \/ \E h \in Reqs, id \in AlertIDs, ok \in BOOLEAN : UpdateLoad(h, id, ok)
    \/ \E h \in Reqs, req \in UpdateAlertRequests, ok \in BOOLEAN :
          \E failed \in SUBSET Queries : UpdateSave(h, req, ok, failed)
    \/ \E id \in AlertIDs, ok \in BOOLEAN :
          \E failed \in SUBSET Queries : DeleteAlertHandler(id, ok, failed)

StoreSpec == Init /\ [][StoreNext]_vars

----------------------------------------------------------------------------
(* The browse handler and its response cache *)

\* alerts.go:80-101  BrowseAlertsHandler looks the key up: on a hit the cached
\* text is the response, otherwise the handler goes on to the table
BrowseGet(b, q, up) ==
    /\ brw[b].pc = "idle"
    /\ brw' = IF GetCache(bcache, q, up).hit
                 THEN brw
                 ELSE [brw EXCEPT ![b] = [pc |-> "miss", q |-> q]]
    /\ UNCHANGED bcache
    /\ UNCHANGED <<evars, svars, rt, tk, dvars, cvars>>

\* alerts.go:103-139  the rows of the query are read and marshalled; if the
\* query fails the handler answers 500
BrowseRead(b, dbOk) ==
    /\ brw[b].pc = "miss"
    /\ brw' = IF dbOk
                 THEN [brw EXCEPT ![b] = [pc |-> "read", q |-> brw[b].q,
                                          data |-> answer(store, brw[b].q)]]
                 ELSE [brw EXCEPT ![b] = NoBrowse]
    /\ UNCHANGED bcache
    /\ UNCHANGED <<evars, svars, rt, tk, dvars, cvars>>

\* alerts.go:145-153  the response is stored under the key for 30 seconds
\* and written to the client
BrowseSet(b, up) ==
    /\ brw[b].pc = "read"
    /\ bcache' = SetCache(bcache, brw[b].q, brw[b].data, up)
    /\ brw' = [brw EXCEPT ![b] = NoBrowse]
    /\ UNCHANGED <<evars, svars, rt, tk, dvars, cvars>>

\* alerts.go:145  the 30 seconds of an entry are over
Expire(q) ==
    /\ bcache[q] # Miss
    /\ bcache' = [bcache EXCEPT ![q] = Miss]
    /\ UNCHANGED brw
    /\ UNCHANGED <<evars, svars, rt, tk, dvars, cvars>>

\* the requests that change the table while it is browsed: alerts of one
\* user with a lower threshold are created, given an upper threshold, deleted
BrowseCreates ==
    { r \in CreateAlertRequests \ {BadBody} :
        /\ r.UserID = <<"u1">> /\ r.Symbol # << >>
        /\ r.LowerThreshold = 1 /\ r.UpperThreshold = Nil }

BrowseUpdates ==
    { r \in UpdateAlertRequests \ {BadBody} :
        /\ r.Symbol = << >> /\ r.LowerThreshold = Nil
        /\ r.UpperThreshold = MaxPrice - 1 }

BrowseNext ==
    \/ \E id \in AlertIDs, req \in BrowseCreates, ok \in BOOLEAN :
          \E failed \in SUBSET Queries : CreateAlertHandler(id, req, ok, failed)
    \/ \E id \in AlertIDs, ok \in BOOLEAN : UpdateLoad(1, id, ok)
    \/ \E req \in BrowseUpdates, ok \in BOOLEAN :
          \E failed \in SUBSET Queries : UpdateSave(1, req, ok, failed)
    \/ \E id \in AlertIDs, ok \in BOOLEAN :
          \E failed \in SUBSET Queries : DeleteAlertHandler(id, ok, failed)
    \/ \E b \in Browsers, q \in Queries, up \in BOOLEAN : BrowseGet(b, q, up)
    \/ \E b \in Browsers, ok \in BOOLEAN : BrowseRead(b, ok)
    \/ \E b \in Browsers, up \in BOOLEAN : BrowseSet(b, up)
    \/ \E q \in Queries : Expire(q)

BrowseSpec == Init /\ [][BrowseNext]_vars

----------------------------------------------------------------------------
(* The ingestion client's connection to the exchange *)

\* ingestion/main.go:80-82  Dial fails; the retry is announced
DialFailed ==
    /\ cpc = "dial"
    /\ Len(waits) < MaxFails
    /\ cpc' = "sleep"
    /\ UNCHANGED <<backoff, waits, dials>>
    /\ UNCHANGED <<evars, svars, rt, tk, dvars, bvars>>

\* ingestion/main.go:83-87  time.Sleep(backoff), the next wait is computed,
\* continue
Sleep ==
    /\ cpc = "sleep"
    /\ waits' = Append(waits, backoff)
    /\ backoff' = nextBackoff(backoff)
    /\ cpc' = "dial"
    /\ UNCHANGED dials
    /\ UNCHANGED <<evars, svars, rt, tk, dvars, bvars>>

\* ingestion/main.go:80, 89-90  Dial succeeds and the connection is returned
DialOk ==
    /\ cpc = "dial"
    /\ cpc' = "subscribe"
    /\ UNCHANGED <<backoff, waits, dials>>
    /\ UNCHANGED <<evars, svars, rt, tk, dvars, bvars>>

\* ingestion/main.go:102-113  the subscription is written; if that fails
\* main leaves its loop
Subscribe(ok) ==
    /\ cpc = "subscribe"
    /\ cpc' = IF ok THEN "read" ELSE "exit"
    /\ UNCHANGED <<backoff, waits, dials>>
    /\ UNCHANGED <<evars, svars, rt, tk, dvars, bvars>>

\* ingestion/main.go:98-99, 116-121  a read fails, the inner loop is left and
\* main calls connectWebSocket again
ReadError ==
    /\ cpc = "read"
    /\ dials < MaxDials
    /\ dials' = dials + 1
    /\ backoff' = initialBackoff
    /\ waits' = << >>
    /\ cpc' = "dial"
    /\ UNCHANGED <<evars, svars, rt, tk, dvars, bvars>>

ConnectNext ==
    \/ DialFailed
    \/ Sleep
    \/ DialOk
    \/ \E ok \in BOOLEAN : Subscribe(ok)
    \/ ReadError

ConnectSpec == Init /\ [][ConnectNext]_vars

Orders(rows) ==
    { [i \in DOMAIN rows |-> rows[p[i]]] :
        p \in { q \in [DOMAIN rows -> DOMAIN rows] :
                  \A i, j \in DOMAIN rows : i # j => q[i] # q[j] } }

Occurrences(seq, e) == Cardinality({ i \in DOMAIN seq : seq[i] = e })

SameEvents(s, t) ==
    \A e \in { s[i] : i \in DOMAIN s } \cup { t[i] : i \in DOMAIN t } :
        Occurrences(s, e) = Occurrences(t, e)

\* every order of the rows of the call gives the events and the map it gave
OrderInsignificant ==
    \A o \in Orders(tk.rows) :
        LET r == processPriceUpdate(tk.prev, o, tk.pu, tk.ts)
        IN  SameEvents(r.events, tk.events) /\ r.m = lastAlertTime

\* C24 as claimed: for every tick, every cooldown state and every order of
\* the same alert set, the same multiset of events is produced and the same
\* cooldown state results.
C24_OrderInsignificant ==
    tk.stage = "done" => OrderInsignificant

\* no two rows of the call have the same user and symbol
DistinctPairs(rows) ==
    \A i, j \in DOMAIN rows :
        i # j => <<rows[i].UserID, rows[i].Symbol>>
                    # <<rows[j].UserID, rows[j].Symbol>>

\* the clock did not move during the call
OneReading(ts) == \A i, j \in DOMAIN ts : ts[i] = ts[j]

\* C24 amended: if no two alerts of the set have the same (user, symbol) pair
\* and all of them are evaluated at one clock reading, every order of the set
\* produces the same multiset of events and the same cooldown state.
C24_OrderInsignificantForDistinctPairs ==
    (tk.stage = "done" /\ DistinctPairs(tk.rows) /\ OneReading(tk.ts))
        => OrderInsignificant

\* two alerts of different users have been evaluated in one call, both fired
C24_Witness ==
    /\ tk.stage = "done"
    /\ Len(tk.rows) = 2
    /\ DistinctPairs(tk.rows)
    /\ OneReading(tk.ts)
    /\ Len(tk.events) >= 2
    /\ \E i, j \in DOMAIN tk.events : tk.events[i].user_id # tk.events[j].user_id

\* every stored alert has a threshold
C25_ThresholdPresent ==
    \A id \in AlertIDs :
        store[id].kind = "row" =>
            store[id].UpperThreshold # Nil \/ store[id].LowerThreshold # Nil

\* a request that would leave both thresholds absent is answered 400 and
\* the table stays as it was
C25_RejectedUnchanged ==
    resp'.missing => (resp'.status = 400 /\ store' = store)

\* C25: after any sequence of create and update requests every stored alert
\* has at least one of upper and lower threshold; a request that would leave
\* both absent is rejected and the stored records are unchanged.
C25_AtLeastOneThreshold ==
    []C25_ThresholdPresent /\ [][C25_RejectedUnchanged]_vars

\* an update has just been written to a stored alert that has one threshold
\* only, while another update of the same alert is in flight that read it
\* with other values
C25_Witness ==
    /\ resp.status = 200
    /\ \E id \in AlertIDs, h \in Reqs :
          /\ store[id].kind = "row"
          /\ store[id].UpperThreshold = Nil
          /\ upd[h] # NoRow
          /\ upd[h].kind = id
          /\ upd[h].LowerThreshold # store[id].LowerThreshold

\* C26: when both thresholds of an alert are crossed by the tick and the key
\* is not in cooldown, the pass sends exactly two events, the 'below' one and
\* the 'above' one, and the map it leaves differs from the map it found in
\* the entry of the key only, which holds the time of the pass.
C26_BothDirectionsOneStamp ==
    (Evaluated /\ EvLower /\ EvUpper /\ ~EntryYoung) =>
        /\ ev.out = << BelowEvent, AboveEvent >>
        /\ lastAlertTime = [ev.prev EXCEPT ![EvKey] = ev.time]

\* a price between the upper and the lower threshold of an alert whose key
\* had fired before and is out of its window again
C26_Witness ==
    /\ Evaluated
    /\ EvLower /\ EvUpper /\ ~EntryYoung
    /\ ev.alert.UpperThreshold < ev.pu.Price
    /\ ev.pu.Price < ev.alert.LowerThreshold
    /\ ev.prev[EvKey] # NoEntry
    /\ Len(ev.out) = 2

\* a heartbeat goroutine that has exited stays so, and what is appended to
\* the channel of its connection from then on is an alert of a broadcast
C27_StoppedStaysSilent ==
    \A c \in Conns :
        hb[c] = "exited" =>
            /\ hb'[c] = "exited"
            /\ Len(chan'[c]) > Len(chan[c]) =>
                  /\ chan'[c] = Append(chan[c], cur)
                  /\ cur \in RelayAlerts

\* C27: after the request context of a connection is done its heartbeat
\* goroutine eventually exits, and from then on it puts no heartbeat into the
\* channel of the connection.
C27_HeartbeatEndsWithConnection ==
    /\ \A c \in Conns : gone[c] ~> hb[c] = "exited"
    /\ [][C27_StoppedStaysSilent]_vars

\* the client of a registered connection has left, its heartbeat goroutine
\* has exited, and its channel has room
C27_Witness ==
    \E c \in clients :
        gone[c] /\ hb[c] = "exited" /\ Len(chan[c]) < ChanCap

C29_NoStampWithoutPublish ==
    ( /\ Evaluated
      /\ ev.out # << >>
      /\ \A i \in 1..Len(ev.out) : ev.pub[i].relayed = << >> )
        => lastAlertTime[EvKey] = ev.prev[EvKey]

\* C30 as claimed: a pass for an alert of one (user, symbol) pair leaves the
\* cooldown entries of the alerts of every other pair as they were, whatever
\* characters the user ids and symbols hold.
C30_PairsIndependent ==
    Evaluated =>
        \A b \in Alerts :
            <<b.UserID, b.Symbol>> # <<ev.alert.UserID, ev.alert.Symbol>>
                => lastAlertTime[alertKey(b)] = ev.prev[alertKey(b)]

\* after a failed fetch the map is as it was and the consumer is back at its
\* read, where every price update can be read
C31_FetchFailState ==
    ev.kind = "fetchfail" =>
        /\ lastAlertTime = ev.prev
        /\ epc = "read"
        /\ \A s \in Symbols, p \in Prices : ENABLED ReadMessage(s, p)

\* the step of the failed fetch sends no event and writes no entry
C31_FetchFailStep ==
    ev'.kind = "fetchfail" =>
        /\ firedAt' = firedAt
        /\ lastAlertTime' = lastAlertTime

\* C31: when the alerts of a tick's symbol cannot be fetched, the tick sends
\* no event and leaves the cooldown map unchanged, and the consumer loop goes
\* on to read the next tick.
C31_FetchFailureSkipsTick ==
    []C31_FetchFailState /\ [][C31_FetchFailStep]_vars

\* a fetch has failed while the map holds an entry from an earlier tick
C31_Witness ==
    /\ ev.kind = "fetchfail"
    /\ \E k \in Keys : lastAlertTime[k] # NoEntry
    /\ now > 0

\* C32 as claimed: once a create, update or delete has completed, its
\* invalidation included, no cache entry computed from the table as it was
\* before remains readable: whatever the cache holds under a key is what the
\* query of that key reads from the table now.
C32_NoStaleEntry ==
    \A q \in Queries :
        bcache[q] # Miss => bcache[q].data = answer(store, q)

\* C33 as claimed: in one call of connectWebSocket the first wait is
\* 1 second, no wait is shorter than the one before it, and no wait is longer
\* than 30 seconds, however many attempts fail.
C33_BackoffWithinThirty ==
    /\ Len(waits) > 0 => waits[1] = initialBackoff
    /\ \A i \in 1..Len(waits), j \in 1..Len(waits) :
          i <= j => waits[i] <= waits[j]
    /\ \A i \in 1..Len(waits) : waits[i] <= maxBackoff

====
